---- MODULE Spec2Model ----
(***************************************************************************)
(* i3-aww: a model of src/main.rs.                                         *)
(*                                                                         *)
(* The program keeps a map  workspaces : num -> Workspace  (a DashMap      *)
(* shared through an Arc).  Two threads touch it:                          *)
(*   - the i3 listener thread, which runs adjust_workspaces on every       *)
(*     Event::Workspace;                                                   *)
(*   - the glib main loop, which runs the uevent handler and the two       *)
(*     chained timeout_add_once callbacks (layout, then adjust + replay).  *)
(* DashMap locks one shard for the time of one get or one insert, so the   *)
(* grain of atomicity of a pass over the map is one get (with the probe    *)
(* made while the guard is held) and one insert.                           *)
(*                                                                         *)
(* Workspaces are the numbered ones (distinct num); Option<T> is modelled  *)
(* as a sequence of length 0 (None) or 1 (Some).                           *)
(***************************************************************************)
EXTENDS Integers, Sequences, FiniteSets, TLC

\* ------------------------------------------------------------------ bounds
MaxEnv == 2          \* changes of the environment in one behaviour
MaxOutputs == 3      \* length of the output lists the layout is computed for
MaxText == 5         \* length of the texts given to MonitorPos::parse

\* The numbered workspaces of the session.
Nums == {1, 2}

\* The outputs xrandr enumerates, in its (stable) enumeration order.
OutputOrder == <<"HDMI-A-0", "DVI-D-0">>
Outputs == {OutputOrder[i] : i \in 1..Len(OutputOrder)}

None == <<>>
Some(x) == <<x>>

\* main.rs:98
primary_monitor == "HDMI-A-0"

VARIABLES
    connected,    \* environment: the outputs that report an EDID
    wm,           \* environment: i3's workspaces, num -> [output, focused, visible]
    up,           \* environment: the services that answer, among "i3" and "x"
    envSteps,     \* number of environment changes so far
    workspaces,   \* the DashMap: num -> Workspace
    aw,           \* per thread, the position and locals of adjust_workspaces
    timers,       \* glib: the armed timeout_add_once sources, in firing order
    mpc,          \* main loop: position inside the running callback
    ctx,          \* main loop: what the running callback captured
    iter,         \* main loop: state of the running workspaces.iter()
    cmds,         \* the i3 commands sent by the running second callback
    xrandr,       \* the argument list of the xrandr child process while it runs
    events,       \* the Event::Workspace messages the listener has not read yet
    uevents,      \* the drm_minor uevents the main loop has not dispatched yet
    given         \* the input of the function under study (pure specifications)

vars == <<connected, wm, up, envSteps, workspaces, aw, timers, mpc, ctx, iter,
          cmds, xrandr, events, uevents, given>>

Threads == {"listener", "main"}

\* ------------------------------------------------------------ environment
\* i3 keeps exactly one visible workspace on every output that has one, and
\* exactly one focused workspace, which is visible.
WmEntry == [output : Outputs, focused : BOOLEAN, visible : BOOLEAN]

WmValid(c) ==
    /\ \A o \in Outputs :
          (\E n \in DOMAIN c : c[n].output = o)
              => Cardinality({n \in DOMAIN c : c[n].output = o /\ c[n].visible}) = 1
    /\ Cardinality({n \in DOMAIN c : c[n].focused}) = 1
    /\ \A n \in DOMAIN c : c[n].focused => c[n].visible

WmConfigs ==
    UNION { {c \in [D -> WmEntry] : WmValid(c)} : D \in (SUBSET Nums) \ {{}} }

\* ------------------------------------------------------- pure functions
RECURSIVE SortedSeq(_)
SortedSeq(S) ==
    IF S = {} THEN <<>>
    ELSE LET m == CHOOSE x \in S : \A y \in S : x <= y
         IN <<m>> \o SortedSeq(S \ {m})

\* i3.get_workspaces(): the reply lists the workspaces by number.
get_workspaces(c) ==
    LET order == SortedSeq(DOMAIN c)
    IN [i \in 1..Len(order) |->
           [num |-> order[i], output |-> c[order[i]].output,
            focused |-> c[order[i]].focused, visible |-> c[order[i]].visible]]

\* xrandr_outputs(): every output with its EDID presence; empty on failure.
xrandr_outputs(ok, conn) ==
    IF ok
    THEN [i \in 1..Len(OutputOrder) |->
             [name |-> OutputOrder[i], connected |-> OutputOrder[i] \in conn]]
    ELSE <<>>

monitor_connected(name, outputs) ==
    \E i \in 1..Len(outputs) : outputs[i].name = name /\ outputs[i].connected

get_focused_workspace(i3_workspaces) ==
    LET hits == {i \in 1..Len(i3_workspaces) : i3_workspaces[i].focused}
    IN IF hits = {} THEN None
       ELSE Some(i3_workspaces[CHOOSE i \in hits : \A j \in hits : i <= j].num)

\* Variants of adjust_entry with one slip each, used to show that the
\* properties below depend on the rules of the loop.
\* The branch "no change, keep the old data" is missing.
adjust_entry_no_keep(workspace, old, old_connected) ==
    LET lost == old # None /\ ~old_connected
    IN [focused |-> workspace.focused \/ workspace.visible,
        num |-> workspace.num,
        output |-> workspace.output,
        previous_output |-> IF lost THEN Some(old[1].output) ELSE None,
        was_focused |-> IF lost THEN old[1].focused ELSE FALSE]

\* The old output is remembered without asking whether it is connected.
adjust_entry_no_probe(workspace, old, old_connected) ==
    LET keep == old # None /\ workspace.output = old[1].output
        lost == old # None /\ ~keep
    IN [focused |-> workspace.focused \/ workspace.visible,
        num |-> workspace.num,
        output |-> workspace.output,
        previous_output |-> IF keep THEN old[1].previous_output
                            ELSE IF lost THEN Some(old[1].output)
                            ELSE None,
        was_focused |-> IF keep THEN old[1].was_focused
                        ELSE IF lost THEN old[1].focused
                        ELSE FALSE]

\* was_focused is taken from the snapshot instead of the old entry.
adjust_entry_new_focus(workspace, old, old_connected) ==
    LET keep == old # None /\ workspace.output = old[1].output
        lost == old # None /\ ~keep /\ ~old_connected
    IN [focused |-> workspace.focused \/ workspace.visible,
        num |-> workspace.num,
        output |-> workspace.output,
        previous_output |-> IF keep THEN old[1].previous_output
                            ELSE IF lost THEN Some(old[1].output)
                            ELSE None,
        was_focused |-> IF keep THEN old[1].was_focused
                        ELSE IF lost THEN workspace.focused \/ workspace.visible
                        ELSE FALSE]

\* The old data is also kept when the workspace moved off a connected output.
adjust_entry_keep_on_move(workspace, old, old_connected) ==
    LET keep == old # None /\ workspace.output = old[1].output
        lost == old # None /\ ~keep /\ ~old_connected
    IN [focused |-> workspace.focused \/ workspace.visible,
        num |-> workspace.num,
        output |-> workspace.output,
        previous_output |-> IF lost THEN Some(old[1].output)
                            ELSE IF old # None THEN old[1].previous_output
                            ELSE None,
        was_focused |-> IF lost THEN old[1].focused
                        ELSE IF old # None THEN old[1].was_focused
                        ELSE FALSE]

\* was_focused is taken from the old entry whenever the output changed,
\* whether the old output is connected or not.
adjust_entry_stale_focus(workspace, old, old_connected) ==
    LET keep == old # None /\ workspace.output = old[1].output
        lost == old # None /\ ~keep /\ ~old_connected
    IN [focused |-> workspace.focused \/ workspace.visible,
        num |-> workspace.num,
        output |-> workspace.output,
        previous_output |-> IF keep THEN old[1].previous_output
                            ELSE IF lost THEN Some(old[1].output)
                            ELSE None,
        was_focused |-> IF keep THEN old[1].was_focused
                        ELSE IF old # None THEN old[1].focused
                        ELSE FALSE]

\* The body of the loop of adjust_workspaces: the Workspace written for the
\* snapshot entry `workspace`, given the map's entry `old` (an Option) and the
\* answer `old_connected` of monitor_connected(old.output).
adjust_entry(workspace, old, old_connected) ==
    LET keep == old # None /\ workspace.output = old[1].output
        lost == old # None /\ ~keep /\ ~old_connected
    IN [focused |-> workspace.focused \/ workspace.visible,
        num |-> workspace.num,
        output |-> workspace.output,
        previous_output |-> IF keep THEN old[1].previous_output
                            ELSE IF lost THEN Some(old[1].output)
                            ELSE None,
        was_focused |-> IF keep THEN old[1].was_focused
                        ELSE IF lost THEN old[1].focused
                        ELSE FALSE]

\* The map filled at startup from the first snapshot.
RECURSIVE initial_workspaces(_)
initial_workspaces(i3_workspaces) ==
    IF i3_workspaces = <<>> THEN <<>>
    ELSE LET w == Head(i3_workspaces)
         IN (w.num :> [focused |-> w.focused \/ w.visible, num |-> w.num,
                       output |-> w.output, previous_output |-> None,
                       was_focused |-> FALSE])
            @@ initial_workspaces(Tail(i3_workspaces))

lookup(map, num) == IF num \in DOMAIN map THEN Some(map[num]) ELSE None

\* main.rs:99-101, the value MonitorPos::parse returns for the configured string.
monitor_pos == Some([name |-> "DVI-D-0", args |-> <<"--right-of", "HDMI-A-0">>])

\* main.rs:212-218
primary_is_connected(monitor_data, primary) ==
    \E i \in 1..Len(monitor_data) :
        primary = monitor_data[i].name /\ monitor_data[i].connected

\* A variant of layout_args that does not record that --primary was given.
RECURSIVE layout_args_unset(_, _, _, _)
layout_args_unset(monitor_data, primary, pos, primary_set) ==
    IF monitor_data = <<>> THEN <<>>
    ELSE LET monitor == Head(monitor_data)
             mark == monitor.connected /\ (monitor.name = primary \/ ~primary_set)
             placed == IF pos # None /\ pos[1].name = monitor.name
                       THEN pos[1].args ELSE <<>>
             group == <<"--output", monitor.name>> \o
                      (IF monitor.connected
                       THEN <<"--auto">> \o placed \o
                            (IF mark THEN <<"--primary">> ELSE <<>>)
                       ELSE <<"--off">>)
         IN group \o layout_args_unset(Tail(monitor_data), primary, pos, primary_set)

\* main.rs:222-243, the loop that appends one group of arguments per output.
RECURSIVE layout_args(_, _, _, _)
layout_args(monitor_data, primary, pos, primary_set) ==
    IF monitor_data = <<>> THEN <<>>
    ELSE LET monitor == Head(monitor_data)
             mark == monitor.connected /\ (monitor.name = primary \/ ~primary_set)
             placed == IF pos # None /\ pos[1].name = monitor.name
                       THEN pos[1].args ELSE <<>>
             group == <<"--output", monitor.name>> \o
                      (IF monitor.connected
                       THEN <<"--auto">> \o placed \o
                            (IF mark THEN <<"--primary">> ELSE <<>>)
                       ELSE <<"--off">>)
         IN group \o layout_args(Tail(monitor_data), primary, pos, primary_set \/ mark)

xrandr_command(monitor_data, primary, pos) ==
    layout_args(monitor_data, primary, pos, primary_is_connected(monitor_data, primary))

MoveCmd(num, output) == [op |-> "move", num |-> num, output |-> output]
FocusCmd(num) == [op |-> "focus", num |-> num, output |-> ""]

\* ------------------------------------------------------------------ state
AwIdle == [pc |-> "idle", snap |-> <<>>, pending |-> None, old |-> None,
           probed |-> "none"]
\* status_ok is what command.status() returned in the first callback of the
\* pass (main.rs:245); the program prints the error and keeps nothing of it.
NoCtx == [existing_workspaces |-> {}, focused_workspace |-> None, status_ok |-> TRUE]
NoIter == [todo |-> {}, seen |-> {}]
NoChild == <<>>
NoInput == <<>>

\* The variables of the program at rest, before the map is filled.
AtRest ==
    /\ envSteps = 0
    /\ aw = [t \in Threads |-> AwIdle]
    /\ timers = <<>>
    /\ mpc = "idle"
    /\ ctx = NoCtx
    /\ iter = NoIter
    /\ cmds = <<>>
    /\ xrandr = NoChild
    /\ events = 0
    /\ uevents = 0
    /\ given = NoInput

\* main.rs:103-117.  The program starts with i3 and the X server answering;
\* the map holds the first snapshot.
Init ==
    /\ connected \in SUBSET Outputs
    /\ wm \in WmConfigs
    /\ up = {"i3", "x"}
    /\ workspaces = initial_workspaces(get_workspaces(wm))
    /\ AtRest

\* ------------------------------------------------------------ environment
\* An output is plugged or unplugged, and the kernel sends a drm_minor uevent.
OutputChange ==
    /\ envSteps < MaxEnv
    /\ \E o \in Outputs :
          connected' = IF o \in connected THEN connected \ {o} ELSE connected \cup {o}
    /\ envSteps' = envSteps + 1
    /\ uevents' = uevents + 1
    /\ UNCHANGED <<wm, up, workspaces, aw, timers, mpc, ctx, iter, cmds, xrandr, events, given>>

\* i3 moves, creates, removes, shows or focuses workspaces, and tells its
\* subscribers with an Event::Workspace.
WmChange ==
    /\ envSteps < MaxEnv
    /\ \E c \in WmConfigs \ {wm} : wm' = c
    /\ envSteps' = envSteps + 1
    /\ events' = events + 1
    /\ UNCHANGED <<connected, up, workspaces, aw, timers, mpc, ctx, iter, cmds, xrandr,
                   uevents, given>>

\* i3 or the X server stops or resumes answering.
ServiceChange ==
    /\ envSteps < MaxEnv
    /\ \E s \in {"i3", "x"} : up' = IF s \in up THEN up \ {s} ELSE up \cup {s}
    /\ envSteps' = envSteps + 1
    /\ UNCHANGED <<connected, wm, workspaces, aw, timers, mpc, ctx, iter, cmds, xrandr,
                   events, uevents, given>>

\* What the program is answered at this moment.
i3_reply == IF "i3" \in up THEN get_workspaces(wm) ELSE <<>>
probe == xrandr_outputs("x" \in up, connected)

\* ------------------------------------------------------ adjust_workspaces
\* main.rs:122.  The snapshot is fetched; nothing happens when i3 fails.
AdjustBegin(t) ==
    aw' = [aw EXCEPT ![t] = IF i3_reply # <<>>
                            THEN [AwIdle EXCEPT !.pc = "get", !.snap = i3_reply]
                            ELSE AwIdle]

\* main.rs:124-147.  One workspaces.get (the probe runs while the guard is
\* held) and the construction of the Workspace to insert.
AdjustGet(t) ==
    /\ aw[t].pc = "get"
    /\ LET workspace == Head(aw[t].snap)
           old == lookup(workspaces, workspace.num)
           probes == old # None /\ workspace.output # old[1].output
           answer == probes /\ monitor_connected(old[1].output, probe)
       IN aw' = [aw EXCEPT ![t].pc = "insert",
                           ![t].pending = Some(adjust_entry(workspace, old, answer)),
                           ![t].old = old,
                           ![t].probed = IF ~probes THEN "none"
                                         ELSE IF answer THEN "connected"
                                         ELSE "disconnected"]
    /\ UNCHANGED <<connected, wm, up, envSteps, workspaces, timers, ctx, iter, cmds,
                   xrandr, events, uevents, given>>

\* A variant of AdjustInsert that drops the entries the snapshot did not list.
AdjustInsert_prune(t) ==
    /\ aw[t].pc = "insert"
    /\ LET listed == {aw[t].snap[i].num : i \in 1..Len(aw[t].snap)}
       IN workspaces' = [n \in listed |->
                            IF n = aw[t].pending[1].num THEN aw[t].pending[1]
                            ELSE workspaces[n]]
    /\ aw' = [aw EXCEPT ![t] =
                 IF Tail(aw[t].snap) = <<>> THEN AwIdle
                 ELSE [AwIdle EXCEPT !.pc = "get", !.snap = Tail(aw[t].snap)]]
    /\ UNCHANGED <<connected, wm, up, envSteps, timers, ctx, iter, cmds, xrandr, events,
                   uevents, given>>

\* main.rs:148.  The insert; after the last one the pass is over.
AdjustInsert(t) ==
    /\ aw[t].pc = "insert"
    /\ workspaces' = (aw[t].pending[1].num :> aw[t].pending[1]) @@ workspaces
    /\ aw' = [aw EXCEPT ![t] =
                 IF Tail(aw[t].snap) = <<>> THEN AwIdle
                 ELSE [AwIdle EXCEPT !.pc = "get", !.snap = Tail(aw[t].snap)]]
    /\ UNCHANGED <<connected, wm, up, envSteps, timers, ctx, iter, cmds, xrandr, events,
                   uevents, given>>

\* ------------------------------------------------------- listener thread
\* main.rs:158-163.  An Event::Workspace is read and a pass begins.
ListenerEvent ==
    /\ aw["listener"].pc = "idle"
    /\ events > 0
    /\ events' = events - 1
    /\ AdjustBegin("listener")
    /\ UNCHANGED <<connected, wm, up, envSteps, workspaces, timers, mpc, ctx, iter, cmds,
                   xrandr, uevents, given>>

ListenerGet == AdjustGet("listener") /\ UNCHANGED mpc

ListenerInsert == AdjustInsert("listener") /\ UNCHANGED mpc

\* -------------------------------------------------------------- main loop
\* A variant of UEvent that re-arms: the timeouts of earlier events that have
\* not fired yet are removed.
Stage2(timer) == timer.stage = 2

UEvent_rearm(devtype) ==
    /\ mpc = "idle"
    /\ IF devtype = "drm_minor"
       THEN /\ uevents > 0
            /\ uevents' = uevents - 1
            /\ timers' = Append(SelectSeq(timers, Stage2), [stage |-> 1])
       ELSE UNCHANGED <<timers, uevents, given>>
    /\ UNCHANGED <<connected, wm, up, envSteps, workspaces, aw, mpc, ctx, iter, cmds,
                   xrandr, events, given>>

\* main.rs:175-181.  The uevent handler: a drm_minor event arms a 500 ms
\* timeout; nothing is cancelled and nothing else is looked at.
UEvent(devtype) ==
    /\ mpc = "idle"
    /\ IF devtype = "drm_minor"
       THEN /\ uevents > 0
            /\ uevents' = uevents - 1
            /\ timers' = Append(timers, [stage |-> 1])
       ELSE UNCHANGED <<timers, uevents, given>>
    /\ UNCHANGED <<connected, wm, up, envSteps, workspaces, aw, mpc, ctx, iter, cmds,
                   xrandr, events, given>>

\* main.rs:184-191.  The first timeout fires: the existing workspaces are
\* listed (none without i3).
Timer1Capture ==
    /\ mpc = "idle"
    /\ timers # <<>>
    /\ Head(timers).stage = 1
    /\ timers' = Tail(timers)
    /\ mpc' = "capture"
    /\ ctx' = [NoCtx EXCEPT
                  !.existing_workspaces = {i3_reply[i].num : i \in 1..Len(i3_reply)}]
    /\ UNCHANGED <<connected, wm, up, envSteps, workspaces, aw, iter, cmds, xrandr,
                   events, uevents, given>>

\* main.rs:193-245.  get_focused_workspace asks i3 again, the outputs are
\* probed and xrandr is started with the argument list.
Timer1Layout ==
    /\ mpc = "capture"
    /\ mpc' = "xrandr"
    /\ ctx' = [ctx EXCEPT !.focused_workspace = get_focused_workspace(i3_reply)]
    /\ xrandr' = xrandr_command(probe, primary_monitor, monitor_pos)
    /\ UNCHANGED <<connected, wm, up, envSteps, workspaces, aw, timers, iter, cmds,
                   events, uevents, given>>

\* A variant of Timer1Arm that gives up the pass when xrandr failed.
Timer1Arm_abort(status_ok) ==
    /\ mpc = "xrandr"
    /\ mpc' = "idle"
    /\ xrandr' = NoChild
    /\ timers' = IF status_ok
                 THEN Append(timers, [stage |-> 2,
                                      existing_workspaces |-> ctx.existing_workspaces,
                                      focused_workspace |-> ctx.focused_workspace,
                                      status_ok |-> status_ok])
                 ELSE timers
    /\ ctx' = NoCtx
    /\ UNCHANGED <<connected, wm, up, envSteps, workspaces, aw, iter, cmds, events,
                   uevents, given>>

\* main.rs:245-250.  command.status() returns; an error is only printed, and
\* the second timeout is armed with what the callback captured.
Timer1Arm(status_ok) ==
    /\ mpc = "xrandr"
    /\ mpc' = "idle"
    /\ xrandr' = NoChild
    /\ timers' = Append(timers, [stage |-> 2,
                                 existing_workspaces |-> ctx.existing_workspaces,
                                 focused_workspace |-> ctx.focused_workspace,
                                 status_ok |-> status_ok])
    /\ ctx' = NoCtx
    /\ UNCHANGED <<connected, wm, up, envSteps, workspaces, aw, iter, cmds, events,
                   uevents, given>>

\* main.rs:249-250.  The second timeout fires and adjust_workspaces begins.
Timer2Begin ==
    /\ mpc = "idle"
    /\ timers # <<>>
    /\ Head(timers).stage = 2
    /\ timers' = Tail(timers)
    /\ ctx' = [existing_workspaces |-> Head(timers).existing_workspaces,
               focused_workspace |-> Head(timers).focused_workspace,
               status_ok |-> Head(timers).status_ok]
    /\ AdjustBegin("main")
    /\ mpc' = IF i3_reply # <<>> THEN "adjust" ELSE "connect"
    /\ UNCHANGED <<connected, wm, up, envSteps, workspaces, iter, cmds, xrandr, events,
                   uevents, given>>

Timer2Get ==
    /\ mpc = "adjust"
    /\ AdjustGet("main")
    /\ UNCHANGED mpc

Timer2Insert ==
    /\ mpc = "adjust"
    /\ AdjustInsert("main")
    /\ mpc' = IF Tail(aw["main"].snap) = <<>> THEN "connect" ELSE "adjust"

\* A variant of Timer2Connect that goes to the focus loop at once.
Timer2Connect_skip_moves ==
    /\ mpc = "connect"
    /\ IF "i3" \in up
       THEN /\ mpc' = "focus"
            /\ iter' = [todo |-> DOMAIN workspaces, seen |-> {}]
       ELSE /\ mpc' = "return"
            /\ UNCHANGED iter
    /\ UNCHANGED <<connected, wm, up, envSteps, workspaces, aw, timers, ctx, cmds,
                   xrandr, events, uevents, given>>

\* main.rs:251-258.  Without a connection the callback returns here.
Timer2Connect ==
    /\ mpc = "connect"
    /\ IF "i3" \in up
       THEN /\ mpc' = "moves"
            /\ iter' = [todo |-> DOMAIN workspaces, seen |-> {}]
       ELSE /\ mpc' = "return"
            /\ UNCHANGED iter
    /\ UNCHANGED <<connected, wm, up, envSteps, workspaces, aw, timers, ctx, cmds,
                   xrandr, events, uevents, given>>

\* One step of a workspaces.iter(): an entry not yet seen is yielded.  The
\* entries present when the iteration began are all yielded; one inserted
\* meanwhile is yielded or not, depending on its shard.
IterYield(num) ==
    /\ num \in DOMAIN workspaces \ iter.seen
    /\ iter' = [todo |-> iter.todo \ {num}, seen |-> iter.seen \cup {num}]

\* A variant of Timer2Move that moves without probing the output.
Timer2Move_no_probe(num) ==
    /\ mpc = "moves"
    /\ IterYield(num)
    /\ LET workspace == workspaces[num]
       IN cmds' = IF workspace.previous_output # None
                  THEN Append(cmds, MoveCmd(workspace.num, workspace.previous_output[1]))
                  ELSE cmds
    /\ UNCHANGED <<connected, wm, up, envSteps, workspaces, aw, timers, mpc, ctx,
                   xrandr, events, uevents, given>>

\* main.rs:261-270
Timer2Move(num) ==
    /\ mpc = "moves"
    /\ IterYield(num)
    /\ LET workspace == workspaces[num]
       IN cmds' = IF /\ workspace.previous_output # None
                     /\ monitor_connected(workspace.previous_output[1], probe)
                  THEN Append(cmds, MoveCmd(workspace.num, workspace.previous_output[1]))
                  ELSE cmds
    /\ UNCHANGED <<connected, wm, up, envSteps, workspaces, aw, timers, mpc, ctx,
                   xrandr, events, uevents, given>>

Timer2MovesEnd ==
    /\ mpc = "moves"
    /\ iter.todo = {}
    /\ mpc' = "focus"
    /\ iter' = [todo |-> DOMAIN workspaces, seen |-> {}]
    /\ UNCHANGED <<connected, wm, up, envSteps, workspaces, aw, timers, ctx, cmds,
                   xrandr, events, uevents, given>>

\* A variant of Timer2Focus that does not look at the captured set.
Timer2Focus_any(num) ==
    /\ mpc = "focus"
    /\ IterYield(num)
    /\ LET workspace == workspaces[num]
       IN cmds' = IF workspace.was_focused
                  THEN Append(cmds, FocusCmd(workspace.num))
                  ELSE cmds
    /\ UNCHANGED <<connected, wm, up, envSteps, workspaces, aw, timers, mpc, ctx,
                   xrandr, events, uevents, given>>

\* main.rs:273-277
Timer2Focus(num) ==
    /\ mpc = "focus"
    /\ IterYield(num)
    /\ LET workspace == workspaces[num]
       IN cmds' = IF workspace.was_focused /\ workspace.num \in ctx.existing_workspaces
                  THEN Append(cmds, FocusCmd(workspace.num))
                  ELSE cmds
    /\ UNCHANGED <<connected, wm, up, envSteps, workspaces, aw, timers, mpc, ctx,
                   xrandr, events, uevents, given>>

\* A variant of Timer2FocusEnd that focuses the captured workspace before the
\* commands of the loop instead of after them.
Timer2FocusEnd_first ==
    /\ mpc = "focus"
    /\ iter.todo = {}
    /\ mpc' = "return"
    /\ iter' = NoIter
    /\ cmds' = IF /\ ctx.focused_workspace # None
                  /\ ctx.focused_workspace[1] \in ctx.existing_workspaces
               THEN <<FocusCmd(ctx.focused_workspace[1])>> \o cmds
               ELSE cmds
    /\ UNCHANGED <<connected, wm, up, envSteps, workspaces, aw, timers, ctx, xrandr,
                   events, uevents, given>>

\* main.rs:279-283.  The loop is over; the workspace focused before the
\* change is focused last.
Timer2FocusEnd ==
    /\ mpc = "focus"
    /\ iter.todo = {}
    /\ mpc' = "return"
    /\ iter' = NoIter
    /\ cmds' = IF /\ ctx.focused_workspace # None
                  /\ ctx.focused_workspace[1] \in ctx.existing_workspaces
               THEN Append(cmds, FocusCmd(ctx.focused_workspace[1]))
               ELSE cmds
    /\ UNCHANGED <<connected, wm, up, envSteps, workspaces, aw, timers, ctx, xrandr,
                   events, uevents, given>>

\* main.rs:284.  The callback returns to the main loop.
Timer2Return ==
    /\ mpc = "return"
    /\ mpc' = "idle"
    /\ ctx' = NoCtx
    /\ cmds' = <<>>
    /\ UNCHANGED <<connected, wm, up, envSteps, workspaces, aw, timers, iter, xrandr,
                   events, uevents, given>>

Program ==
    \/ ListenerEvent
    \/ ListenerGet
    \/ ListenerInsert
    \/ \E devtype \in {"drm_minor", "usb_device"} : UEvent(devtype)
    \/ Timer1Capture
    \/ Timer1Layout
    \/ \E status_ok \in BOOLEAN : Timer1Arm(status_ok)
    \/ Timer2Begin
    \/ Timer2Get
    \/ Timer2Insert
    \/ Timer2Connect
    \/ \E num \in Nums : Timer2Move(num)
    \/ Timer2MovesEnd
    \/ \E num \in Nums : Timer2Focus(num)
    \/ Timer2FocusEnd
    \/ Timer2Return

Next ==
    \/ OutputChange
    \/ WmChange
    \/ ServiceChange
    \/ Program

Spec == Init /\ [][Next]_vars

\* C1: the passes of the two threads exclude each other: while one thread is
\* between the get of an entry and its insert, the other is not.
Between(t) == aw[t].pc = "insert"

C1_PassesExclude == ~(Between("listener") /\ Between("main"))

\* C9: drm_minor events that arrive before the timeout of an earlier one has
\* fired leave one timeout armed, and one pass at most is in flight (from the
\* first callback to the return of the second).
Armed == {i \in 1..Len(timers) : timers[i].stage = 1}
InFlight ==
    Cardinality({i \in 1..Len(timers) : timers[i].stage = 2})
        + (IF mpc = "idle" THEN 0 ELSE 1)

C9_Coalesced == Cardinality(Armed) <= 1 /\ InFlight <= 1

\* C7: when the replay ends and the workspace focused before the change was
\* captured and is among the existing workspaces captured with it, the last
\* command sent is the focus of that workspace.
Captured ==
    /\ ctx.focused_workspace # None
    /\ ctx.focused_workspace[1] \in ctx.existing_workspaces

C7_LastFocus ==
    [][(mpc = "focus" /\ mpc' = "return" /\ Captured)
         => /\ cmds' # <<>>
            /\ cmds'[Len(cmds')] = FocusCmd(ctx.focused_workspace[1])
      ]_vars

\* Another workspace was focused by the loop, then the captured one.
C7_Witness ==
    /\ mpc = "return"
    /\ Captured
    /\ \E i \in 1..Len(cmds) :
          /\ cmds[i].op = "focus"
          /\ cmds[i].num # ctx.focused_workspace[1]
          /\ i < Len(cmds)

\* C8: a move command for workspace N to output O is sent only when the entry
\* N of the map has previous_output = O and O is connected and probed so at
\* that moment.
C8_MoveOnlyToConnected ==
    [][\A n \in Nums, o \in Outputs :
          (cmds' = Append(cmds, MoveCmd(n, o)))
             => /\ n \in DOMAIN workspaces
                /\ workspaces[n].previous_output = Some(o)
                /\ o \in connected
                /\ "x" \in up
      ]_vars

C8_Witness ==
    /\ mpc = "moves"
    /\ \E i \in 1..Len(cmds) : cmds[i].op = "move"

\* C11: no step removes an entry of the map, and a step changes only an entry
\* whose number is listed in the snapshot of the pass that writes it; the
\* entries of the numbers absent from the snapshot stay as they are.
Listed(t) == {aw[t].snap[i].num : i \in 1..Len(aw[t].snap)}

C11_AbsentUntouched ==
    [][/\ DOMAIN workspaces \subseteq DOMAIN workspaces'
       /\ \A n \in DOMAIN workspaces :
             workspaces'[n] # workspaces[n]
                => \E t \in Threads : aw[t].pc = "insert" /\ n \in Listed(t)
      ]_vars

\* The listener is about to write the only entry of a snapshot that lists
\* workspace 1 alone (the reply is ordered by number), while the map remembers
\* an output for workspace 2.
C11_Witness ==
    /\ aw["listener"].pc = "insert"
    /\ Listed("listener") = {1}
    /\ 2 \in DOMAIN workspaces
    /\ workspaces[2].previous_output # None

\* C14: whatever command.status() returns, the step that ends the first
\* callback arms the second timeout with what was captured, and the step that
\* fires it begins adjust_workspaces.
C14_LayoutFailureGoesOn ==
    [][/\ (mpc = "xrandr" /\ mpc' = "idle")
            => /\ Len(timers') = Len(timers) + 1
               /\ timers'[Len(timers')].stage = 2
               /\ timers'[Len(timers')].existing_workspaces = ctx.existing_workspaces
               /\ timers'[Len(timers')].focused_workspace = ctx.focused_workspace
       /\ (mpc = "idle" /\ mpc' # "idle" /\ Head(timers).stage = 2)
            => /\ mpc' \in {"adjust", "connect"}
               /\ mpc' = "adjust" <=> aw'["main"].pc = "get"
      ]_vars

\* xrandr failed, and the second callback of that pass has reconciled and is
\* replaying: it has sent a move.
C14_Witness ==
    /\ mpc \in {"moves", "focus"}
    /\ ~ctx.status_ok
    /\ \E i \in 1..Len(cmds) : cmds[i].op = "move"

\* C18: the steps of a pass follow each other in one order.  The first
\* callback captures, then starts xrandr, then arms the second timeout when
\* xrandr has returned; the second callback runs adjust_workspaces, then
\* connects, then runs the move loop, then the focus loop.  The map is written
\* by the main loop only while it is in adjust_workspaces, a command is sent
\* only once that is over, a move only in the move loop and a focus only
\* after it, so that no move follows a focus.
PassOrder ==
    {<<"idle", "capture">>, <<"capture", "xrandr">>, <<"xrandr", "idle">>,
     <<"idle", "adjust">>, <<"idle", "connect">>, <<"adjust", "connect">>,
     <<"connect", "moves">>, <<"connect", "return">>, <<"moves", "focus">>,
     <<"focus", "return">>, <<"return", "idle">>}

C18_StepsInOrder ==
    [][/\ mpc' # mpc => <<mpc, mpc'>> \in PassOrder
       /\ ctx'.existing_workspaces # ctx.existing_workspaces
             => mpc \in {"idle", "xrandr", "return"}
       /\ (Len(timers') > Len(timers) /\ timers'[Len(timers')].stage = 2)
             => mpc = "xrandr"
       /\ aw'["main"] # aw["main"] => mpc \in {"idle", "adjust"}
       /\ (cmds' # cmds /\ cmds' # <<>>)
             => /\ mpc \in {"moves", "focus"}
                /\ aw["main"].pc = "idle"
                /\ cmds' = Append(cmds, cmds'[Len(cmds')])
                /\ cmds'[Len(cmds')].op = "move" <=> mpc = "moves"
       /\ \A i, j \in 1..Len(cmds') :
             (cmds'[i].op = "focus" /\ cmds'[j].op = "move") => j < i
      ]_vars

\* A pass has sent a move and then a focus and is about to return.
C18_Witness ==
    /\ mpc = "return"
    /\ \E i, j \in 1..Len(cmds) :
          i < j /\ cmds[i].op = "move" /\ cmds[j].op = "focus"

\* C19: no entry of the map remembers the output it is on, and neither does
\* an entry a pass is about to write, however the passes of the two threads
\* interleave.
C19_RememberedIsElsewhere ==
    /\ \A n \in DOMAIN workspaces :
          workspaces[n].previous_output # Some(workspaces[n].output)
    /\ \A t \in Threads :
          aw[t].pc = "insert"
             => aw[t].pending[1].previous_output # Some(aw[t].pending[1].output)

\* Both threads are between a get and its insert, and the map remembers an
\* output for a workspace.
C19_Witness ==
    /\ aw["listener"].pc = "insert"
    /\ aw["main"].pc = "insert"
    /\ \E n \in DOMAIN workspaces : workspaces[n].previous_output # None

\* C20: an entry with was_focused set remembers an output; the entries of the
\* map filled at startup, and the entry written for a workspace the map did
\* not hold, remember nothing and have was_focused unset.
C20_FocusOnlyWithRemembered ==
    /\ \A n \in DOMAIN workspaces :
          workspaces[n].was_focused => workspaces[n].previous_output # None
    /\ envSteps = 0
          => \A n \in DOMAIN workspaces :
                workspaces[n].previous_output = None /\ ~workspaces[n].was_focused
    /\ \A t \in Threads :
          (aw[t].pc = "insert" /\ aw[t].old = None)
             => /\ aw[t].pending[1].previous_output = None
                /\ ~aw[t].pending[1].was_focused

\* An entry has was_focused set, and a pass is writing the first entry of
\* another workspace.
C20_Witness ==
    /\ \E n \in DOMAIN workspaces : workspaces[n].was_focused
    /\ \E t \in Threads : aw[t].pc = "insert" /\ aw[t].old = None

\* C13 as stated: when a pass sees a workspace on the output the map
\* remembers for it, the entry it writes remembers no output.
BackOnRemembered(t) ==
    /\ aw[t].pc = "insert"
    /\ aw[t].old # None
    /\ aw[t].old[1].previous_output = Some(aw[t].pending[1].output)

C13_ClearedWhenBack ==
    \A t \in Threads :
        BackOnRemembered(t) => aw[t].pending[1].previous_output = None

\* C13: when a pass sees a workspace on the output the map remembers for it,
\* the entry it writes no longer remembers that output: it remembers nothing
\* when the output the workspace left probes connected, and remembers the
\* output the workspace left when that one probes disconnected.
C13_ReplacedWhenBack ==
    \A t \in Threads :
        BackOnRemembered(t) =>
            /\ aw[t].pending[1].previous_output # aw[t].old[1].previous_output
            /\ aw[t].probed = "connected"
                  => aw[t].pending[1].previous_output = None
            /\ aw[t].probed = "disconnected"
                  => aw[t].pending[1].previous_output = Some(aw[t].old[1].output)
            /\ aw[t].probed # "none"

\* A workspace is back on the remembered output while the output it left is
\* itself disconnected.
C13_Witness ==
    \E t \in Threads :
        /\ BackOnRemembered(t)
        /\ aw[t].probed = "disconnected"
        /\ aw[t].old[1].output \notin connected

\* ------------------------------------------- the unplug / replug scenario
\* Workspace 1 is on HDMI-A-0 and focused, workspace 2 on DVI-D-0.  HDMI-A-0
\* is unplugged; once xrandr has been started i3 migrates workspace 1 to
\* DVI-D-0 (within the second delay); when that pass is over HDMI-A-0 is
\* plugged again, and i3 puts workspace 1 back once it is told to move it.
\* envSteps counts the steps of the scenario.
A == "HDMI-A-0"
B == "DVI-D-0"

InitE2E ==
    /\ connected = Outputs
    /\ wm = (1 :> [output |-> A, focused |-> TRUE, visible |-> TRUE]) @@
            (2 :> [output |-> B, focused |-> FALSE, visible |-> TRUE])
    /\ up = {"i3", "x"}
    /\ workspaces = initial_workspaces(get_workspaces(wm))
    /\ AtRest

E2E_Unplug ==
    /\ envSteps = 0
    /\ envSteps' = 1
    /\ connected' = connected \ {A}
    /\ uevents' = uevents + 1
    /\ UNCHANGED <<wm, up, workspaces, aw, timers, mpc, ctx, iter, cmds, xrandr, events,
                   given>>

E2E_Migrate ==
    /\ envSteps = 1
    /\ \/ mpc = "xrandr"
       \/ mpc = "idle" /\ timers # <<>> /\ Head(timers).stage = 2
    /\ envSteps' = 2
    /\ wm' = (1 :> [output |-> B, focused |-> TRUE, visible |-> TRUE]) @@
             (2 :> [output |-> B, focused |-> FALSE, visible |-> FALSE])
    /\ events' = events + 1
    /\ UNCHANGED <<connected, up, workspaces, aw, timers, mpc, ctx, iter, cmds, xrandr,
                   uevents, given>>

E2E_Replug ==
    /\ envSteps = 2
    /\ mpc = "idle"
    /\ timers = <<>>
    /\ uevents = 0
    /\ envSteps' = 3
    /\ connected' = connected \cup {A}
    /\ uevents' = uevents + 1
    /\ UNCHANGED <<wm, up, workspaces, aw, timers, mpc, ctx, iter, cmds, xrandr, events,
                   given>>

\* i3 carries out the move command of the replug pass: workspace 1 is back on
\* HDMI-A-0 and the listener is told, while the replay is still running.
E2E_Moved ==
    /\ envSteps = 3
    /\ \E i \in 1..Len(cmds) : cmds[i] = MoveCmd(1, A)
    /\ envSteps' = 4
    /\ wm' = (1 :> [output |-> A, focused |-> TRUE, visible |-> TRUE]) @@
             (2 :> [output |-> B, focused |-> FALSE, visible |-> TRUE])
    /\ events' = events + 1
    /\ UNCHANGED <<connected, up, workspaces, aw, timers, mpc, ctx, iter, cmds, xrandr,
                   uevents, given>>

NextE2E ==
    \/ E2E_Unplug
    \/ E2E_Migrate
    \/ E2E_Replug
    \/ E2E_Moved
    \/ Program

SpecE2E == InitE2E /\ [][NextE2E]_vars

\* C2: the pass started by the replug sends the move of workspace 1 to
\* HDMI-A-0, later the focus of workspace 1, and the focus of workspace 1 is
\* its last command.
C2_Restore ==
    (mpc = "return" /\ envSteps >= 3) =>
        /\ \E i, j \in 1..Len(cmds) :
              /\ i < j
              /\ cmds[i] = MoveCmd(1, A)
              /\ cmds[j] = FocusCmd(1)
        /\ cmds[Len(cmds)] = FocusCmd(1)

C2_Witness ==
    /\ mpc = "return"
    /\ envSteps = 4
    /\ workspaces[1].output = A
    /\ Len(cmds) >= 2

\* The maps of Workspace values, over any set of numbers.
Workspace(num) ==
    [focused : BOOLEAN, num : {num}, output : Outputs,
     previous_output : {None} \cup {Some(o) : o \in Outputs}, was_focused : BOOLEAN]

Maps ==
    UNION { {m \in [D -> UNION {Workspace(n) : n \in D}] : \A n \in D : m[n].num = n}
            : D \in SUBSET Nums }

\* The second callback of the pass started by the unplug returns, workspace 1
\* having been reported on DVI-D-0.
UnplugPassEnds ==
    /\ mpc = "return"
    /\ envSteps = 2
    /\ workspaces[1].output = B
    /\ workspaces[1].previous_output = Some(A)
    /\ workspaces[1].was_focused

\* C15 as stated: the pass started by the unplug sends no command.
C15_NothingSent == UnplugPassEnds => cmds = <<>>

\* C15: the pass started by the unplug sends no move command; it does send
\* focus commands, all of them for workspace 1: one from the loop over the
\* entries with was_focused, one for the workspace focused before the change.
C15_OnlyFocusOfOne ==
    UnplugPassEnds =>
        /\ \A i \in 1..Len(cmds) : cmds[i] = FocusCmd(1)
        /\ Len(cmds) = 2

C15_Witness ==
    /\ UnplugPassEnds
    /\ cmds # <<>>
    /\ A \notin connected

\* ------------------------------------------- one hotplug pass, on any map
\* One drm_minor uevent is dispatched on any map of Workspace values and any
\* state of i3 and of the outputs; the environment stands still while the two
\* callbacks run.
InitHotplug ==
    /\ connected \in SUBSET Outputs
    /\ wm \in WmConfigs
    /\ up = {"i3", "x"}
    /\ workspaces \in Maps
    /\ envSteps = 0
    /\ aw = [t \in Threads |-> AwIdle]
    /\ timers = <<>>
    /\ mpc = "idle"
    /\ ctx = NoCtx
    /\ iter = NoIter
    /\ cmds = <<>>
    /\ xrandr = NoChild
    /\ events = 0
    /\ uevents = 1
    /\ given = NoInput

NextHotplug ==
    \/ \E devtype \in {"drm_minor", "usb_device"} : UEvent(devtype)
    \/ Timer1Capture
    \/ Timer1Layout
    \/ \E status_ok \in BOOLEAN : Timer1Arm(status_ok)
    \/ Timer2Begin
    \/ Timer2Get
    \/ Timer2Insert
    \/ Timer2Connect
    \/ \E num \in Nums : Timer2Move(num)
    \/ Timer2MovesEnd
    \/ \E num \in Nums : Timer2Focus(num)
    \/ Timer2FocusEnd
    \/ Timer2Return

SpecHotplug == InitHotplug /\ [][NextHotplug]_vars

\* The glib main loop dispatches a source that is ready and runs its callback
\* to the end: the steps of the main loop are taken as long as one is possible.
MainLoop == NextHotplug

\* The main loop alone, with outputs plugged and unplugged and the services
\* failing and resuming around it.
NextLive ==
    \/ OutputChange
    \/ ServiceChange
    \/ MainLoop

SpecLive == Init /\ [][NextLive]_vars /\ WF_vars(MainLoop)

\* C17: a timeout leaves the queue only by firing, at its turn, whatever
\* events come later, and every drm_minor event dispatched adds one to the
\* queue; every armed timeout fires and every callback returns, so
\* that every drm_minor event is followed by its first callback, then by the
\* second one, and the main loop is idle again with nothing left to fire.
C17_TimersFire ==
    /\ [][timers' # timers
            => \/ /\ Len(timers') = Len(timers) + 1
                  /\ SubSeq(timers', 1, Len(timers)) = timers
               \/ /\ timers # <<>>
                  /\ timers' = Tail(timers)
                  /\ mpc = "idle"
                  /\ mpc' = IF Head(timers).stage = 1 THEN "capture"
                            ELSE IF aw'["main"].pc = "get" THEN "adjust" ELSE "connect"
         ]_vars
    /\ [][uevents' < uevents => Len(timers') = Len(timers) + 1]_vars
    /\ (uevents > 0) ~> (\E i \in 1..Len(timers) : timers[i].stage = 1)
    /\ (timers # <<>>) ~> (mpc \in {"capture", "adjust", "connect"})
    /\ (mpc = "capture") ~> (\E i \in 1..Len(timers) : timers[i].stage = 2)
    /\ (mpc # "idle") ~> (mpc = "idle")
    /\ <>[](uevents = 0 /\ timers = <<>> /\ mpc = "idle")

\* A second event has armed its timeout while the pass of an earlier event is
\* in its second callback; both go on.
C17_Witness ==
    /\ mpc \in {"adjust", "connect", "moves", "focus"}
    /\ \E i \in 1..Len(timers) : timers[i].stage = 1

\* C12: a focus command is sent only for a workspace of the set captured by
\* the first callback of the pass, and the step of the focus loop that visits
\* a workspace outside that set sends nothing.
C12_FocusOnlyExisting ==
    [][\A n \in Nums :
          /\ cmds' = Append(cmds, FocusCmd(n)) => n \in ctx.existing_workspaces
          /\ (mpc = "focus" /\ n \notin iter.seen /\ n \in iter'.seen
                /\ n \notin ctx.existing_workspaces) => cmds' = cmds
      ]_vars

\* The focus loop has visited a workspace with was_focused set that i3 did not
\* list when the pass began, and has sent a focus for another one.
C12_Witness ==
    /\ mpc = "focus"
    /\ \E n \in iter.seen :
          /\ workspaces[n].was_focused
          /\ n \notin ctx.existing_workspaces
    /\ \E i \in 1..Len(cmds) : cmds[i].op = "focus"

\* ------------------------------------------------- one pass, on any map
\* adjust_workspaces as a function of the map, the snapshot and the answers
\* of the probe: the map is any map of Workspace values, the environment
\* stands still, and the listener reads two Event::Workspace in a row.
InitPass ==
    /\ connected \in SUBSET Outputs
    /\ wm \in WmConfigs
    /\ up = {"i3", "x"}
    /\ workspaces \in Maps
    /\ envSteps = 0
    /\ aw = [t \in Threads |-> AwIdle]
    /\ timers = <<>>
    /\ mpc = "idle"
    /\ ctx = NoCtx
    /\ iter = NoIter
    /\ cmds = <<>>
    /\ xrandr = NoChild
    /\ events = 2
    /\ uevents = 0
    /\ given = NoInput

NextPass ==
    \/ ListenerEvent
    \/ ListenerGet
    \/ ListenerInsert

SpecPass == InitPass /\ [][NextPass]_vars

\* The insert the listener is about to make: the snapshot entry, the entry
\* of the map it replaces, and the entry written.
Inserting == aw["listener"].pc = "insert"
Seen == Head(aw["listener"].snap)
Prior == lookup(workspaces, Seen.num)
Written == workspaces'[Seen.num]
ProbedDisconnected ==
    /\ aw["listener"].probed = "disconnected"
    /\ Prior[1].output \notin connected

\* C3: the second of two passes over the same snapshot, with the same outputs
\* connected, leaves every entry of the map as the first pass left it.
C3_Idempotent ==
    [][(Inserting /\ events = 0) => workspaces' = workspaces]_vars

C3_Witness ==
    /\ Inserting
    /\ events = 0
    /\ Prior # None
    /\ Prior[1].previous_output # None
    /\ Prior[1].was_focused

\* C4: an insert writes a remembered output that it did not carry over only
\* when the snapshot's output differs from the prior one and the prior output
\* probed disconnected, and then it writes the prior output; when the outputs
\* are equal, previous_output and was_focused are the prior ones.
C4_RememberedOnlyAfterLoss ==
    [][Inserting =>
          /\ (Prior # None /\ Seen.output = Prior[1].output)
                => /\ Written.previous_output = Prior[1].previous_output
                   /\ Written.was_focused = Prior[1].was_focused
          /\ (Written.previous_output # None
                /\ ~(Prior # None /\ Seen.output = Prior[1].output))
                => /\ Prior # None
                   /\ ProbedDisconnected
                   /\ Written.previous_output = Some(Prior[1].output)
      ]_vars

C4_Witness ==
    /\ Inserting
    /\ Prior # None
    /\ Seen.output # Prior[1].output
    /\ Prior[1].previous_output # None
    /\ aw["listener"].pending[1].previous_output = Some(Prior[1].output)

\* C5: an entry on output A seen on another output B while A probes
\* disconnected is written with previous_output = A, output = B and
\* was_focused = the effective focus the entry had.
C5_FocusPropagation ==
    [][(Inserting /\ Prior # None /\ Seen.output # Prior[1].output
          /\ ProbedDisconnected)
         => /\ Written.previous_output = Some(Prior[1].output)
            /\ Written.was_focused = Prior[1].focused
            /\ Written.output = Seen.output
      ]_vars

C5_Witness ==
    /\ Inserting
    /\ Prior # None
    /\ Seen.output # Prior[1].output
    /\ ProbedDisconnected
    /\ Prior[1].focused
    /\ ~(Seen.focused \/ Seen.visible)

\* C6: an entry seen on another output while its stored output still probes
\* connected is written with no previous_output and was_focused = FALSE.
C6_ManualMove ==
    [][(Inserting /\ Prior # None /\ Seen.output # Prior[1].output
          /\ aw["listener"].probed = "connected")
         => /\ Written.previous_output = None
            /\ Written.was_focused = FALSE
      ]_vars

C6_Witness ==
    /\ Inserting
    /\ Prior # None
    /\ Seen.output # Prior[1].output
    /\ aw["listener"].probed = "connected"
    /\ Prior[1].output \in connected
    /\ Prior[1].previous_output # None
    /\ Prior[1].was_focused

\* ------------------------------------------- MonitorPos::parse, on any text
\* A &str is the sequence of its characters.  The texts are the ones of at
\* most MaxText characters over a letter, a dash, the colon and the space.
Chars == {"a", "-", ":", " "}

RECURSIVE Texts(_)
Texts(n) ==
    IF n = 0 THEN {<<>>}
    ELSE LET shorter == Texts(n - 1)
         IN shorter \cup {Append(t, c) : t \in {k \in shorter : Len(k) = n - 1}, c \in Chars}

Find(text, c) == {i \in 1..Len(text) : text[i] = c}
First(S) == CHOOSE i \in S : \A j \in S : i <= j

\* str::split(':'): the pieces between the colons, one more than there are
\* colons, empty pieces included.
RECURSIVE split(_)
split(text) ==
    IF Find(text, ":") = {} THEN <<text>>
    ELSE LET i == First(Find(text, ":"))
         IN <<SubSeq(text, 1, i - 1)>> \o split(SubSeq(text, i + 1, Len(text)))

\* str::split_ascii_whitespace: the maximal runs without whitespace.
RECURSIVE split_ascii_whitespace(_)
split_ascii_whitespace(text) ==
    IF text = <<>> THEN <<>>
    ELSE IF Head(text) = " " THEN split_ascii_whitespace(Tail(text))
    ELSE LET stop == IF Find(text, " ") = {} THEN Len(text) + 1
                     ELSE First(Find(text, " "))
         IN <<SubSeq(text, 1, stop - 1)>> \o
            split_ascii_whitespace(SubSeq(text, stop, Len(text)))

\* main.rs:43-54.  The first next() of a split always yields; the second
\* yields when there is a colon.
parse(data) ==
    LET pieces == split(data)
    IN IF Len(pieces) < 2 THEN None
       ELSE Some([name |-> pieces[1], args |-> split_ascii_whitespace(pieces[2])])

InitParse ==
    /\ connected = {}
    /\ wm = <<>>
    /\ up = {}
    /\ workspaces = <<>>
    /\ envSteps = 0
    /\ aw = [t \in Threads |-> AwIdle]
    /\ timers = <<>>
    /\ mpc = "start"
    /\ ctx = NoCtx
    /\ iter = NoIter
    /\ cmds = <<>>
    /\ xrandr = NoChild
    /\ events = 0
    /\ uevents = 0
    /\ given \in [data : Texts(MaxText), monitor_pos : {None}]

\* main.rs:101 on the given text.
ParseRun ==
    /\ mpc = "start"
    /\ mpc' = "parsed"
    /\ given' = [given EXCEPT !.monitor_pos = parse(given.data)]
    /\ UNCHANGED <<connected, wm, up, envSteps, workspaces, aw, timers, ctx, iter, cmds,
                   xrandr, events, uevents>>

SpecParse == InitParse /\ [][ParseRun]_vars

\* The two parts of a text around its first colon.
NamePart(text) == SubSeq(text, 1, First(Find(text, ":")) - 1)
ArgumentPart(text) == SubSeq(text, First(Find(text, ":")) + 1, Len(text))

\* C16: the text is split at its first colon only; the result is absent when
\* there is no colon or when the part before or the part after it is empty,
\* and else it is the name with the words of everything after the colon.
C16_SplitAtFirstColon ==
    mpc = "parsed" =>
        given.monitor_pos =
            IF Find(given.data, ":") = {} THEN None
            ELSE IF NamePart(given.data) = <<>> \/ ArgumentPart(given.data) = <<>>
                 THEN None
                 ELSE Some([name |-> NamePart(given.data),
                            args |-> split_ascii_whitespace(ArgumentPart(given.data))])

\* --------------------------------------------- the layout, on any outputs
\* The construction of the xrandr command line (main.rs:210-243) as a
\* function of the probed outputs, the primary output and the directive.
OutputNames == {"HDMI-A-0", "DVI-D-0", "DP-0", "DP-1"}

RECURSIVE Lists(_)
Lists(n) ==
    IF n = 0 THEN {<<>>}
    ELSE LET shorter == Lists(n - 1)
         IN shorter \cup
            {Append(l, [name |-> o, connected |-> c]) :
                l \in {k \in shorter : Len(k) = n - 1}, o \in OutputNames, c \in BOOLEAN}

DistinctNames(l) == \A i, j \in 1..Len(l) : l[i].name = l[j].name => i = j

LayoutInputs ==
    [monitor_data : {l \in Lists(MaxOutputs) : DistinctNames(l)},
     primary : OutputNames,
     pos : {None, monitor_pos}]

InitLayout ==
    /\ connected = {}
    /\ wm = <<>>
    /\ up = {}
    /\ workspaces = <<>>
    /\ envSteps = 0
    /\ aw = [t \in Threads |-> AwIdle]
    /\ timers = <<>>
    /\ mpc = "idle"
    /\ ctx = NoCtx
    /\ iter = NoIter
    /\ cmds = <<>>
    /\ xrandr = NoChild
    /\ events = 0
    /\ uevents = 0
    /\ given \in LayoutInputs

\* main.rs:210-245 on the given outputs.
LayoutRun ==
    /\ mpc = "idle"
    /\ mpc' = "xrandr"
    /\ xrandr' = xrandr_command(given.monitor_data, given.primary, given.pos)
    /\ UNCHANGED <<connected, wm, up, envSteps, workspaces, aw, timers, ctx, iter, cmds,
                   events, uevents, given>>

SpecLayout == InitLayout /\ [][LayoutRun]_vars

\* The arguments that follow "--output <name>" up to the next "--output".
Starts(args) == {i \in 1..Len(args) : args[i] = "--output"}
GroupOf(args, name) ==
    LET start == CHOOSE i \in Starts(args) : args[i + 1] = name
        later == {i \in Starts(args) : i > start}
        stop == IF later = {} THEN Len(args) + 1
                ELSE CHOOSE i \in later : \A j \in later : i <= j
    IN SubSeq(args, start + 2, stop - 1)
Has(seq, flag) == \E i \in 1..Len(seq) : seq[i] = flag

Connected(data) == {i \in 1..Len(data) : data[i].connected}
Marked(data, args) ==
    {i \in 1..Len(data) : Has(GroupOf(args, data[i].name), "--primary")}
\* The output that is to be primary: the configured one when it is connected,
\* else the first connected one.
Preferred(data, primary) ==
    IF \E i \in Connected(data) : data[i].name = primary
    THEN CHOOSE i \in Connected(data) : data[i].name = primary
    ELSE CHOOSE i \in Connected(data) : \A j \in Connected(data) : i <= j

\* C10: the command line has one group per output; a disconnected output is
\* given --off and not --primary; when an output is connected exactly one is
\* given --primary, the configured primary if connected, else the first
\* connected one.
C10_OnePrimary ==
    mpc = "xrandr" =>
        LET data == given.monitor_data
        IN /\ Cardinality(Starts(xrandr)) = Len(data)
           /\ \A i \in 1..Len(data) :
                 ~data[i].connected => GroupOf(xrandr, data[i].name) = <<"--off">>
           /\ Connected(data) # {} => Marked(data, xrandr) = {Preferred(data, given.primary)}
           /\ Connected(data) = {} => Marked(data, xrandr) = {}

\* The configured primary is listed but disconnected, and it is not the
\* first of several connected outputs that takes its place.
C10_Witness ==
    /\ mpc = "xrandr"
    /\ LET data == given.monitor_data
       IN /\ \E i \in 1..Len(data) : data[i].name = given.primary /\ ~data[i].connected
          /\ Cardinality(Connected(data)) >= 2
          /\ Marked(data, xrandr) # {}

====
